---------------------------- MODULE Spec2Model ----------------------------
(***************************************************************************)
(* State-machine model of the PlaybackController of spotify-module         *)
(* (src/spotify_module/playback_controller.py), its background volume-ramp *)
(* worker threads, the process lifecycle of the interactive shell          *)
(* (src/cli.py), the DeviceManager (src/spotify_module/device_manager.py)  *)
(* and the PlaylistManager (src/spotify_module/playlist_manager.py).       *)
(*                                                                         *)
(* Threads are atomic between blocking points: a remote API call, the      *)
(* worker's time.sleep, and Thread.join.  A remote call is in flight from  *)
(* the step that issues it to the step in which it returns or raises.      *)
(***************************************************************************)
EXTENDS Integers, Sequences, FiniteSets, TLC

(***************************************************************************)
(* Program constants.                                                      *)
(***************************************************************************)
MinVolume == 0
MaxVolume == 100
InitialVolume == 50
JoinTimeout == 2
MinDelay == 1
\* config.get('default_volume', 50)
DefaultVolume == 50
\* tracks per page of playlist_tracks
PageSize == 100
\* sys.exit(0) in the signal handler
HandlerStatus == 0
\* main: return 1 when an exception escaped run
RaisedStatus == 1
\* the defaults of play_playlist_with_ramp and of start_volume_ramp
RampStartDefault == 10
RampEndDefault == 80
RampDurationDefault == 300
IncrementDefault == 2

(***************************************************************************)
(* Bounds of the model.                                                    *)
(***************************************************************************)
\* worker threads that can be alive at the same time
MaxWorkers == 2
\* volume steps one worker takes before the model stops following it
MaxTicks == 2
\* process ids the scan for "spotifyd" can match at the same time
MaxProcs == 2
\* calls made to the DeviceManager from outside
MaxCalls == 2

(***************************************************************************)
(* Inputs.                                                                 *)
(***************************************************************************)
VolumeArgs == {-1, 30, 101}
RampStarts == {96, 101}
RampEnds == {100, 102}
RampDurations == {300}
RampIncrements == {-200, 0, 3}
TrackLists == {<<"t1">>, <<"t1", "t2">>}
\* playlist ids, what the remote API serves for a query, limits
PlaylistIds == {"a", "b", "c"}
OwnPlaylists ==
    {<<>>} \cup
    {<<[id |-> i, match |-> m]>> : i \in PlaylistIds, m \in BOOLEAN} \cup
    {<<[id |-> "a", match |-> TRUE], [id |-> i, match |-> m]>> :
        i \in {"b", "c"}, m \in BOOLEAN}
PublicPlaylists ==
    {<<>>} \cup {<<i>> : i \in PlaylistIds}
    \cup {<<i, j>> : i, j \in PlaylistIds}
    \cup {<<"a", "b", i>> : i \in PlaylistIds}
SearchLimits == {0, 1, 2, 3, 10}
\* playlist sizes, and the items whose track is null
PlaylistSizes == {0, 1, 100, 101, 250}
MissingItems == {{}, {1}, {100, 101}}
PlaylistNames == {"Road Trip"}
DeviceName == "SpotifyBot"
\* state['progress_ms'] as the remote API serves it: <<>> is null
ProgressValues == {<<>>, <<0>>, <<61000>>}

Slots == 1..MaxWorkers
NoThread == 0
\* exit_status of a process that has not exited
NoStatus == -1
\* get_spotifyd_pid found no process
NoPid == 0

VARIABLES
    \* PlaybackController fields
    device_id, is_playing, current_volume, volume_ramp_active,
    stop_background, background_thread, current_playlist, current_tracks,
    \* the ramp worker threads, by slot
    workers,
    \* the foreground (calling) thread: position, operation, arguments, result
    fg_pc, fg_op, fg_arg, fg_result,
    \* the shell process: lifecycle phase, the daemon, what shutdown has done,
    \* the status the process exited with
    cli_phase, daemon_running, signalled, shutdown_log, exit_status,
    \* DeviceManager: the file at spotifyd_path, the processes the scan for
    \* "spotifyd" matches, the calls in progress (innermost last), the pid
    \* stop_spotifyd holds, the last return value, what the outermost call
    \* has done so far, the outermost calls made
    binary, procs, dm_stack, dm_pid, dm_result, dm_log, dm_calls,
    \* PlaylistManager: position, operation, its arguments and the remote
    \* data it is served, its locals, its return value
    cat_pc, cat_op, cat_in, cat_local, cat_result

ctl == <<device_id, is_playing, current_volume, volume_ramp_active,
         stop_background, background_thread, current_playlist, current_tracks>>
fg == <<fg_pc, fg_op, fg_arg, fg_result>>
cli == <<cli_phase, daemon_running, signalled, shutdown_log, exit_status>>
dev == <<binary, procs, dm_stack, dm_pid, dm_result, dm_log, dm_calls>>
cat == <<cat_pc, cat_op, cat_in, cat_local, cat_result>>
vars == <<ctl, workers, fg, cli, dev, cat>>

(***************************************************************************)
(* Pure helpers.                                                           *)
(***************************************************************************)
Min(a, b) == IF a < b THEN a ELSE b

\* Python's // for a non-zero divisor (floor division)
FloorDiv(a, b) == IF b > 0 THEN a \div b ELSE (0 - a) \div (0 - b)

\* set_volume with the lower bound of the range test left out
SetVolumeValidNoLowerBound(volume) == volume <= MaxVolume

\* the range test of set_volume
SetVolumeValid(volume) == MinVolume <= volume /\ volume <= MaxVolume

\* (end_volume - start_volume) // increment, increment # 0
TotalIncrements(start_volume, end_volume, increment) ==
    FloorDiv(end_volume - start_volume, increment)

\* delay_per_increment as the exact fraction <<numerator, denominator>>
DelayPerIncrement(start_volume, end_volume, duration_seconds, increment) ==
    LET total_increments == TotalIncrements(start_volume, end_volume, increment)
    IN  IF total_increments > 0
        THEN <<duration_seconds, total_increments>>
        ELSE <<MinDelay, 1>>

\* delay > seconds
DelayExceeds(delay, seconds) == delay[1] > seconds * delay[2]

\* the stored volume written though the remote call raised
VolumeAfterCallAlways(ok, volume) == volume

\* self.sp.volume(volume) under try/except, then self._current_volume =
\* volume: the stored volume after the remote call returned (ok) or raised
VolumeAfterCall(ok, volume) == IF ok THEN volume ELSE current_volume

\* the worker stepping from the shared stored volume, not from its own
NextStepFromStored(current, increment, end_volume) ==
    IF current_volume + increment < end_volume
    THEN current_volume + increment
    ELSE end_volume

\* the worker stepping down by increment
NextStepDown(current, increment, end_volume) == Min(current - increment, end_volume)

\* the worker's next local volume
NextStep(current, increment, end_volume) == Min(current + increment, end_volume)

\* the worker's loop condition: its local volume, the event, the flag
LoopCond(current, end_volume, stop_set, ramp_active) ==
    /\ current < end_volume
    /\ ~stop_set
    /\ ramp_active

(***************************************************************************)
(* Worker thread records.  ticks (steps taken), cancel (the operations    *)
(* that asked this worker to stop) and woke (those of them it has woken up *)
(* after) are history kept for stating properties; the code does not read  *)
(* them.                                                                   *)
(***************************************************************************)
DeadWorker ==
    [pc |-> "dead", start_volume |-> 0, end_volume |-> 0, increment |-> 0,
     delay |-> <<0, 1>>, current_volume |-> 0, ticks |-> 0,
     cancel |-> {}, woke |-> {}]

NewWorker(start_volume, end_volume, increment, delay) ==
    [pc |-> "sleep", start_volume |-> start_volume, end_volume |-> end_volume,
     increment |-> increment, delay |-> delay, current_volume |-> start_volume,
     ticks |-> 0, cancel |-> {}, woke |-> {}]

Alive(w) == workers[w].pc # "dead"

ThreadAlive(t) == t # NoThread /\ Alive(t)

\* every live worker learns that `who` asked for cancellation
MarkCancel(ws, who) ==
    [w \in Slots |->
        IF ws[w].pc # "dead" THEN [ws[w] EXCEPT !.cancel = @ \cup {who}]
        ELSE ws[w]]

(***************************************************************************)
(* PlaylistManager (src/spotify_module/playlist_manager.py).  A playlist   *)
(* is [id, is_own]; the user's own playlists as the remote API serves them *)
(* are [id, match] (match: the name contains the query); a playlist's      *)
(* items are numbered 1..n, item k carries the track URI k unless k is in  *)
(* `missing` (an item whose track is null).                                *)
(***************************************************************************)
(***************************************************************************)
(* DeviceManager (src/spotify_module/device_manager.py).  dm_stack holds   *)
(* the calls in progress, the innermost last; a frame is the operation,    *)
(* its position, its boolean argument, the process start_spotifyd launched,*)
(* the file that was at spotifyd_path when the call was made, and (history *)
(* kept for stating properties) the processes that matched when the call   *)
(* was made and have been running ever since.  The                         *)
(* manager is atomic between its blocking points: the two HTTP requests of *)
(* an installation, the settle delay after a launch and the grace period   *)
(* after SIGTERM.  At those points the host may change the process table.  *)
(* dm_log lists what the outermost call has done: "get_release" and        *)
(* "download" (HTTP requests), "config_ok"/"config_failed", "launch"/      *)
(* "launch_failed" (Popen), "term", "kill"/"kill_failed" (os.kill), and as *)
(* history "called_running", "already_running" and the results of the      *)
(* install and start steps.                                                *)
(***************************************************************************)
BinaryStates == {"absent", "not_executable", "installed", "new"}
Pids == 1..MaxProcs

DevIdle ==
    /\ dm_stack = <<>>
    /\ dm_pid = NoPid
    /\ dm_result = FALSE
    /\ dm_log = <<>>
    /\ dm_calls = 0

Frame(op, pc, flag) ==
    [op |-> op, pc |-> pc, flag |-> flag, child |-> NoPid, saved |-> binary,
     old |-> procs]

Depth == Len(dm_stack)
Top == dm_stack[Depth]
At(op, pc) == Depth > 0 /\ Top.op = op /\ Top.pc = pc

SetPc(st, pc) == [st EXCEPT ![Len(st)].pc = pc]

\* the innermost call of st returns: its caller goes on, or the outermost
\* call is done
Ret(st) ==
    IF Len(st) = 1 THEN SetPc(st, "done") ELSE SubSeq(st, 1, Len(st) - 1)

\* the process p is gone: no call in progress counts it as running since
\* the call
Forget(st, p) == [i \in 1..Len(st) |-> [st[i] EXCEPT !.old = @ \ {p}]]

\* the process table after a step
Table(ps) == procs' = ps /\ daemon_running' = (ps # {})

\* is_spotifyd_installed: the file exists and is executable
IsInstalled == binary \in {"installed", "new"}

\* is_spotifyd_running: some process matches
IsRunning == procs # {}

\* get_spotifyd_pid: the first match of the scan, in pid order
ScanPid(ps) == IF ps = {} THEN NoPid ELSE CHOOSE p \in ps : \A q \in ps : p <= q

\* the pid of a process that Popen creates
NewPid == CHOOSE p \in Pids \ (procs \cup {dm_pid}) :
              \A q \in Pids \ (procs \cup {dm_pid}) : p <= q

\* a call from outside: no call in progress
DevCall ==
    /\ dm_stack = <<>>
    /\ dm_calls < MaxCalls
    /\ dm_calls' = dm_calls + 1

\* install_spotifyd never taking the already-installed shortcut
InstallSkippedNever(force_reinstall) == FALSE

\* if self.is_spotifyd_installed() and not force_reinstall: return True
InstallSkipped(force_reinstall) == IsInstalled /\ ~force_reinstall

\* install_spotifyd entered with the callers st: the shortcut, or the
\* request for the release metadata goes out
EnterInstall(st, lg, force_reinstall) ==
    /\ IF InstallSkipped(force_reinstall)
       THEN /\ dm_stack' = Ret(Append(st, Frame("install", "entry", force_reinstall)))
            /\ dm_result' = TRUE
            /\ dm_log' = lg
       ELSE /\ dm_stack' = Append(st, Frame("install", "meta", force_reinstall))
            /\ dm_result' = FALSE
            /\ dm_log' = Append(lg, "get_release")
    /\ Table(procs)

InstallSpotifyd(force_reinstall) ==
    /\ DevCall
    /\ EnterInstall(<<>>, <<>>, force_reinstall)
    /\ UNCHANGED <<binary, dm_pid>>
    /\ UNCHANGED <<ctl, workers, fg, cat, cli_phase, signalled, shutdown_log, exit_status>>

\* _get_download_url returns: the request failed ("error"), no asset
\* matches the platform's binary name ("no_asset"), or a URL ("asset"),
\* which is then requested
InstallMeta(outcome) ==
    /\ At("install", "meta")
    /\ IF outcome = "asset"
       THEN /\ dm_stack' = SetPc(dm_stack, "download")
            /\ dm_log' = Append(dm_log, "download")
            /\ UNCHANGED dm_result
       ELSE /\ dm_stack' = Ret(dm_stack)
            /\ dm_log' = Append(dm_log, "install_failed")
            /\ dm_result' = FALSE
    /\ UNCHANGED <<binary, procs, daemon_running, dm_pid, dm_calls>>
    /\ UNCHANGED <<ctl, workers, fg, cat, cli_phase, signalled, shutdown_log, exit_status>>

\* the file at spotifyd_path replaced whatever the download gave
FileAfterExtractAlways(outcome) == "new"

\* the file at spotifyd_path after _download_and_extract and chmod: the
\* extracted binary is moved into place only when the archive has it
FileAfterExtract(outcome) == IF outcome = "member" THEN "new" ELSE binary

\* _download_and_extract returns: the download failed ("error"), the
\* archive has no member ending in spotifyd ("no_member"), or it has one
InstallDownload(outcome) ==
    /\ At("install", "download")
    /\ binary' = FileAfterExtract(outcome)
    /\ dm_result' = (outcome = "member")
    /\ dm_stack' = Ret(dm_stack)
    /\ dm_log' = Append(dm_log, IF outcome = "member" THEN "install_ok"
                                                      ELSE "install_failed")
    /\ UNCHANGED <<procs, daemon_running, dm_pid, dm_calls>>
    /\ UNCHANGED <<ctl, workers, fg, cat, cli_phase, signalled, shutdown_log, exit_status>>

\* start_spotifyd from `if self.is_spotifyd_running()` on; the innermost
\* frame of st is its own: already running, or Popen (which may raise) and
\* the settle delay begins
StartRunning(st, lg) ==
    IF IsRunning
    THEN /\ dm_stack' = Ret(st)
         /\ dm_result' = TRUE
         /\ dm_log' = lg \o <<"already_running", "start_ok">>
         /\ Table(procs)
    ELSE \E launched \in BOOLEAN :
            IF launched
            THEN /\ dm_stack' = [st EXCEPT ![Len(st)].pc = "settle",
                                           ![Len(st)].child = NewPid]
                 /\ dm_result' = FALSE
                 /\ dm_log' = Append(lg, "launch")
                 /\ Table(procs \cup {NewPid})
            ELSE /\ dm_stack' = Ret(st)
                 /\ dm_result' = FALSE
                 /\ dm_log' = lg \o <<"launch_failed", "start_failed">>
                 /\ Table(procs)

\* start_spotifyd entered with the callers st: install first if the binary
\* is missing
EnterStart(st, lg, background) ==
    IF ~IsInstalled
    THEN EnterInstall(Append(st, Frame("start", "after_install", background)), lg, FALSE)
    ELSE StartRunning(Append(st, Frame("start", "entry", background)), lg)

StartSpotifyd(background) ==
    /\ DevCall
    /\ EnterStart(<<>>, IF IsRunning THEN <<"called_running">> ELSE <<>>, background)
    /\ UNCHANGED <<binary, dm_pid>>
    /\ UNCHANGED <<ctl, workers, fg, cat, cli_phase, signalled, shutdown_log, exit_status>>

\* install_spotifyd has returned to start_spotifyd
StartAfterInstall ==
    /\ At("start", "after_install")
    /\ IF dm_result
       THEN StartRunning(dm_stack, dm_log)
       ELSE /\ dm_stack' = Ret(dm_stack)
            /\ dm_result' = FALSE
            /\ dm_log' = Append(dm_log, "start_failed")
            /\ Table(procs)
    /\ UNCHANGED <<binary, dm_pid, dm_calls>>
    /\ UNCHANGED <<ctl, workers, fg, cat, cli_phase, signalled, shutdown_log, exit_status>>

\* start_spotifyd reporting success whatever it observes
StartObservedAlways(background, child) == TRUE

\* what start_spotifyd observes after the settle delay: a matching process
\* (background), or its own child still alive (foreground)
StartObserved(background, child) ==
    IF background THEN IsRunning ELSE child \in procs

\* the settle delay is over
StartSettle ==
    /\ At("start", "settle")
    /\ dm_result' = StartObserved(Top.flag, Top.child)
    /\ dm_stack' = Ret(dm_stack)
    /\ dm_log' = Append(dm_log, IF dm_result' THEN "start_ok" ELSE "start_failed")
    /\ UNCHANGED <<binary, procs, daemon_running, dm_pid, dm_calls>>
    /\ UNCHANGED <<ctl, workers, fg, cat, cli_phase, signalled, shutdown_log, exit_status>>

\* stop_spotifyd taking any scan result for a process
StopFoundAlways(pid) == TRUE

\* if pid:
StopFound(pid) == pid # NoPid

\* stop_spotifyd entered with the callers st: the scan, and SIGTERM to the
\* process found
EnterStop(st, lg) ==
    LET pid == ScanPid(procs)
    IN  IF StopFound(pid)
        THEN /\ dm_pid' = pid
             /\ dm_stack' = Append(st, Frame("stop", "grace", FALSE))
             /\ dm_result' = FALSE
             /\ dm_log' = Append(lg, "term")
        ELSE /\ dm_pid' = NoPid
             /\ dm_stack' = Ret(Append(st, Frame("stop", "entry", FALSE)))
             /\ dm_result' = TRUE
             /\ dm_log' = lg

StopSpotifydBegin ==
    /\ DevCall
    /\ EnterStop(<<>>, <<>>)
    /\ UNCHANGED <<binary, procs, daemon_running>>
    /\ UNCHANGED <<ctl, workers, fg, cat, cli_phase, signalled, shutdown_log, exit_status>>

\* the grace period is over: if any process matches, SIGKILL to the pid
\* found before; os.kill raises when that process is gone
StopSpotifydGrace ==
    /\ At("stop", "grace")
    /\ IF IsRunning
       THEN IF dm_pid \in procs
            THEN /\ Table(procs \ {dm_pid})
                 /\ dm_log' = Append(dm_log, "kill")
                 /\ dm_result' = TRUE
            ELSE /\ Table(procs)
                 /\ dm_log' = Append(dm_log, "kill_failed")
                 /\ dm_result' = FALSE
       ELSE /\ Table(procs)
            /\ dm_log' = dm_log
            /\ dm_result' = TRUE
    /\ dm_stack' = Forget(Ret(dm_stack), dm_pid)
    /\ UNCHANGED <<binary, dm_pid, dm_calls>>
    /\ UNCHANGED <<ctl, workers, fg, cat, cli_phase, signalled, shutdown_log, exit_status>>

\* restart_spotifyd: stop_spotifyd, whose result is not looked at
RestartSpotifyd ==
    /\ DevCall
    /\ EnterStop(<<Frame("restart", "after_stop", TRUE)>>, <<>>)
    /\ UNCHANGED <<binary, procs, daemon_running>>
    /\ UNCHANGED <<ctl, workers, fg, cat, cli_phase, signalled, shutdown_log, exit_status>>

\* stop_spotifyd has returned to restart_spotifyd and time.sleep(2) is
\* over: start_spotifyd(device_name), in the background
RestartAfterStop ==
    /\ At("restart", "after_stop")
    /\ EnterStart(SetPc(dm_stack, "after_start"), dm_log, TRUE)
    /\ UNCHANGED <<binary, dm_pid, dm_calls>>
    /\ UNCHANGED <<ctl, workers, fg, cat, cli_phase, signalled, shutdown_log, exit_status>>

\* start_spotifyd has returned to restart_spotifyd, which returns its
\* result
RestartAfterStart ==
    /\ At("restart", "after_start")
    /\ dm_stack' = Ret(dm_stack)
    /\ UNCHANGED <<binary, procs, daemon_running, dm_pid, dm_result, dm_log, dm_calls>>
    /\ UNCHANGED <<ctl, workers, fg, cat, cli_phase, signalled, shutdown_log, exit_status>>

\* ensure_spotifyd_ready giving up when the config file was not written
EnsureProceedsIfWritten(written) == written

\* a failed create_spotifyd_config is logged, and the start step follows
EnsureProceeds(written) == TRUE

\* ensure_spotifyd_ready from `if spotify_config` on; the innermost frame of
\* st is its own, its flag tells whether spotify_config was given
EnsureConfig(st, lg) ==
    \E written \in BOOLEAN :
        LET given == st[Len(st)].flag
            lg2 == IF given
                   THEN Append(lg, IF written THEN "config_ok" ELSE "config_failed")
                   ELSE lg
        IN  IF given /\ ~EnsureProceeds(written)
            THEN /\ dm_stack' = Ret(st)
                 /\ dm_result' = FALSE
                 /\ dm_log' = lg2
                 /\ Table(procs)
            ELSE IF ~IsRunning
            THEN EnterStart(SetPc(st, "after_start"), lg2, TRUE)
            ELSE /\ dm_stack' = Ret(st)
                 /\ dm_result' = TRUE
                 /\ dm_log' = Append(lg2, "already_running")
                 /\ Table(procs)

EnsureSpotifydReady(given) ==
    /\ DevCall
    /\ IF ~IsInstalled
       THEN EnterInstall(<<Frame("ensure", "after_install", given)>>, <<>>, FALSE)
       ELSE EnsureConfig(<<Frame("ensure", "entry", given)>>, <<>>)
    /\ UNCHANGED <<binary, dm_pid>>
    /\ UNCHANGED <<ctl, workers, fg, cat, cli_phase, signalled, shutdown_log, exit_status>>

\* install_spotifyd has returned to ensure_spotifyd_ready
EnsureAfterInstall ==
    /\ At("ensure", "after_install")
    /\ IF dm_result
       THEN EnsureConfig(dm_stack, dm_log)
       ELSE /\ dm_stack' = Ret(dm_stack)
            /\ dm_result' = FALSE
            /\ dm_log' = dm_log
            /\ Table(procs)
    /\ UNCHANGED <<binary, dm_pid, dm_calls>>
    /\ UNCHANGED <<ctl, workers, fg, cat, cli_phase, signalled, shutdown_log, exit_status>>

\* start_spotifyd has returned to ensure_spotifyd_ready
EnsureAfterStart ==
    /\ At("ensure", "after_start")
    /\ dm_stack' = Ret(dm_stack)
    /\ UNCHANGED <<binary, procs, daemon_running, dm_pid, dm_result, dm_log, dm_calls>>
    /\ UNCHANGED <<ctl, workers, fg, cat, cli_phase, signalled, shutdown_log, exit_status>>

\* the caller takes the return value
DevReturn ==
    /\ At(Top.op, "done")
    /\ dm_stack' = <<>>
    /\ dm_pid' = NoPid
    /\ dm_result' = FALSE
    /\ dm_log' = <<>>
    /\ UNCHANGED <<binary, procs, daemon_running, dm_calls>>
    /\ UNCHANGED <<ctl, workers, fg, cat, cli_phase, signalled, shutdown_log, exit_status>>

\* the host: a matching process ends (on SIGTERM, or for reasons of its own)
ProcExit(p) ==
    /\ p \in procs
    /\ Table(procs \ {p})
    /\ dm_stack' = Forget(dm_stack, p)
    /\ UNCHANGED <<binary, dm_pid, dm_result, dm_log, dm_calls>>
    /\ UNCHANGED <<ctl, workers, fg, cat, cli_phase, signalled, shutdown_log, exit_status>>

\* the host: another actor starts a process that the scan matches, under a
\* pid not in use and not held by a call in progress
ExternalStart(p) ==
    /\ p \notin procs
    /\ p # dm_pid
    /\ \A i \in 1..Depth : dm_stack[i].child # p
    /\ Table(procs \cup {p})
    /\ UNCHANGED <<binary, dm_stack, dm_pid, dm_result, dm_log, dm_calls>>
    /\ UNCHANGED <<ctl, workers, fg, cat, cli_phase, signalled, shutdown_log, exit_status>>

NoInput == [own |-> <<>>, public |-> <<>>, limit |-> 0, n |-> 0, missing |-> {}]

NoLocals ==
    [user_playlists |-> <<>>, public_playlists |-> <<>>,
     tracks |-> <<>>, offset |-> 0, fetches |-> 0, failed |-> FALSE]

CatIdle ==
    /\ cat_pc = "idle"
    /\ cat_op = "none"
    /\ cat_in = NoInput
    /\ cat_local = NoLocals
    /\ cat_result = <<>>

\* s[:k] for k >= 0
Take(s, k) == SubSeq(s, 1, Min(Len(s), k))

\* _search_user_playlists: the matching playlists, in order, until `limit`
\* of them are collected; [] when the remote call raises
SearchUserPlaylists(own, limit, ok) ==
    IF ~ok \/ limit <= 0
    THEN <<>>
    ELSE LET matching == SelectSeq(own, LAMBDA p : p.match)
             found == Take(matching, limit)
         IN  [i \in 1..Len(found) |-> [id |-> found[i].id, is_own |-> TRUE]]

\* _search_public_playlists: the remote search serves at most `limit`
\* results and turns down a limit below 1; [] when the call raises
SearchPublicPlaylists(public, limit, ok) ==
    IF ~ok \/ limit <= 0
    THEN <<>>
    ELSE LET found == Take(public, limit)
         IN  [i \in 1..Len(found) |-> [id |-> found[i], is_own |-> FALSE]]

\* the two branches merged with the public results first
AllPlaylistsPublicFirst(user_playlists, public_playlists) ==
    public_playlists \o user_playlists

\* all_playlists = user_playlists + public_playlists
AllPlaylists(user_playlists, public_playlists) ==
    user_playlists \o public_playlists

\* the deduplication loop: an entry is kept if its id was not seen before
RECURSIVE UniquePlaylists(_, _)
UniquePlaylists(all_playlists, seen_ids) ==
    IF all_playlists = <<>>
    THEN <<>>
    ELSE LET playlist == Head(all_playlists)
         IN  IF playlist.id \notin seen_ids
             THEN <<playlist>> \o UniquePlaylists(Tail(all_playlists),
                                                  seen_ids \cup {playlist.id})
             ELSE UniquePlaylists(Tail(all_playlists), seen_ids)

\* search_playlists(query, limit), limit >= 0
SearchPlaylists(own, public, limit, own_ok, public_ok) ==
    LET user_playlists == SearchUserPlaylists(own, limit \div 2, own_ok)
        public_playlists ==
            SearchPublicPlaylists(public, limit - Len(user_playlists), public_ok)
        unique_playlists ==
            UniquePlaylists(AllPlaylists(user_playlists, public_playlists), {})
    IN
    /\ cat_pc = "idle"
    /\ cat_pc' = "done"
    /\ cat_op' = "search_playlists"
    /\ cat_in' = [NoInput EXCEPT !.own = own, !.public = public, !.limit = limit]
    /\ cat_local' = [NoLocals EXCEPT !.user_playlists = user_playlists,
                                     !.public_playlists = public_playlists]
    /\ cat_result' = Take(unique_playlists, limit)
    /\ UNCHANGED <<ctl, workers, fg, cli, dev>>

\* results['items'] of the page at `offset`: the item numbers
PageItems(n, offset) ==
    IF offset >= n THEN <<>>
    ELSE [i \in 1..Min(PageSize, n - offset) |-> offset + i]

\* a next link served also with the last full page
HasNextInclusive(n, offset) == offset + PageSize <= n

\* results['next']: the remote API links a next page while items remain
HasNext(n, offset) == offset + PageSize < n

\* get_playlist_tracks(playlist_id): the locals before the first fetch
GetPlaylistTracks(n, missing) ==
    /\ cat_pc = "idle"
    /\ cat_pc' = "page"
    /\ cat_op' = "get_playlist_tracks"
    /\ cat_in' = [NoInput EXCEPT !.n = n, !.missing = missing]
    /\ cat_local' = NoLocals
    /\ cat_result' = <<>>
    /\ UNCHANGED <<ctl, workers, fg, cli, dev>>

\* one turn of the loop: playlist_tracks(offset, limit=100) returns (ok) or
\* raises; the URIs of the page's items are appended; the loop ends at a
\* page without a next link
FetchPage(ok) ==
    /\ cat_pc = "page"
    /\ LET at == cat_local.offset
           uris == SelectSeq(PageItems(cat_in.n, at),
                             LAMBDA k : k \notin cat_in.missing)
           tracks == cat_local.tracks \o uris
           fetched == [cat_local EXCEPT !.fetches = @ + 1]
       IN  IF ~ok
           THEN /\ cat_local' = [fetched EXCEPT !.failed = TRUE]
                /\ cat_result' = <<>>
                /\ cat_pc' = "done"
           ELSE IF HasNext(cat_in.n, at)
           THEN /\ cat_local' = [fetched EXCEPT !.tracks = tracks,
                                                !.offset = at + PageSize]
                /\ cat_result' = cat_result
                /\ cat_pc' = "page"
           ELSE /\ cat_local' = [fetched EXCEPT !.tracks = tracks]
                /\ cat_result' = tracks
                /\ cat_pc' = "done"
    /\ UNCHANGED <<cat_op, cat_in, ctl, workers, fg, cli, dev>>

\* the caller takes the return value
CatReturn ==
    /\ cat_pc = "done"
    /\ cat_pc' = "idle"
    /\ cat_op' = "none"
    /\ cat_in' = NoInput
    /\ cat_local' = NoLocals
    /\ cat_result' = <<>>
    /\ UNCHANGED <<ctl, workers, fg, cli, dev>>

\* the fields as the constructors leave them, but for the device id
Fresh ==
    /\ is_playing = FALSE
    /\ current_volume = InitialVolume
    /\ volume_ramp_active = FALSE
    /\ stop_background = FALSE
    /\ background_thread = NoThread
    /\ current_playlist = "none"
    /\ current_tracks = <<>>
    /\ workers = [w \in Slots |-> DeadWorker]
    /\ fg_pc = "idle"
    /\ fg_op = "none"
    /\ fg_arg = <<>>
    /\ fg_result = FALSE
    /\ signalled = FALSE
    /\ shutdown_log = <<>>
    /\ exit_status = NoStatus
    /\ DevIdle
    /\ CatIdle

\* the state of everything but the daemon's binary and the process table:
\* the shell constructs the controller without a device id
Constructed ==
    /\ Fresh
    /\ device_id = "none"
    /\ cli_phase = "load_config"

\* a controller constructed with or without a device id (device_id: str =
\* None), its caller free to call any method
SessionInit ==
    /\ Fresh
    /\ device_id \in {"none", DeviceName}
    /\ cli_phase = "interactive"
    /\ daemon_running = FALSE
    /\ binary = "installed"
    /\ procs = {}

\* the binary installed, and the daemon running or not
Init ==
    /\ Constructed
    /\ daemon_running \in BOOLEAN
    /\ binary = "installed"
    /\ procs = IF daemon_running THEN {1} ELSE {}

\* any binary, any process table
DaemonInit ==
    /\ Constructed
    /\ binary \in BinaryStates \ {"new"}
    /\ procs \in SUBSET Pids
    /\ daemon_running = (procs # {})

(***************************************************************************)
(* The foreground thread.  A call moves it from "idle" to "api" (a remote  *)
(* call in flight), "join" (waiting for the worker) or "done" (returned,   *)
(* fg_result holds the return value); FgReturn takes "done" back to idle.  *)
(***************************************************************************)
Idle == cli_phase = "interactive" /\ fg_pc = "idle"

Returned(op, arg, result) ==
    /\ fg_pc' = "done"
    /\ fg_op' = op
    /\ fg_arg' = arg
    /\ fg_result' = result

InFlight(op, arg) ==
    /\ fg_pc' = "api"
    /\ fg_op' = op
    /\ fg_arg' = arg
    /\ fg_result' = FALSE

FgReturn ==
    /\ cli_phase = "interactive"
    /\ fg_pc = "done"
    /\ fg_pc' = "idle"
    /\ fg_op' = "none"
    /\ fg_arg' = <<>>
    /\ fg_result' = FALSE
    /\ UNCHANGED <<ctl, workers, cli>>
    /\ UNCHANGED <<dev, cat>>

\* set_volume(volume): range test, then the remote call
SetVolume(volume) ==
    /\ Idle
    /\ IF SetVolumeValid(volume)
       THEN InFlight("set_volume", <<volume>>)
       ELSE Returned("set_volume", <<volume>>, FALSE)
    /\ UNCHANGED <<ctl, workers, cli>>
    /\ UNCHANGED <<dev, cat>>

\* the remote call of set_volume returns (ok) or raises
SetVolumeResult(ok) ==
    /\ fg_pc = "api" /\ fg_op = "set_volume"
    /\ current_volume' = VolumeAfterCall(ok, fg_arg[1])
    /\ Returned("set_volume", fg_arg, ok)
    /\ UNCHANGED <<device_id, is_playing, volume_ramp_active, stop_background,
                   background_thread, current_playlist, current_tracks,
                   workers, cli>>
    /\ UNCHANGED <<dev, cat>>

SetVolumeReturn == \E ok \in BOOLEAN : SetVolumeResult(ok)

\* recording what shutdown does, from the signal on
Logged(sig, events) ==
    shutdown_log' = IF sig THEN shutdown_log \o events ELSE shutdown_log

\* is_playing written though the remote call raised
PlayingAfterAlways(ok, playing) == playing

\* the remote call under try/except, then self._is_playing = playing:
\* is_playing after the remote call returned (ok) or raised
PlayingAfter(ok, playing) == IF ok THEN playing ELSE is_playing

\* the worker clearing is_playing when it ends
PlayingAfterWorkerEnded(ended) == is_playing /\ ~ended

\* is_playing after a step of a worker that has ended or not: the worker
\* does not write it
PlayingAfterWorker(ended) == is_playing

\* the first steps of stop_playback: set the event, then join the worker
\* (if one is alive) or go straight to the remote pause call
BeginStopPlayback(sig) ==
    /\ stop_background' = TRUE
    /\ workers' = MarkCancel(workers, "stop_playback")
    /\ fg_op' = "stop_playback"
    /\ fg_arg' = <<>>
    /\ fg_result' = FALSE
    /\ IF ThreadAlive(background_thread)
       THEN fg_pc' = "join" /\ Logged(sig, <<"stop_ramp">>)
       ELSE fg_pc' = "api" /\ Logged(sig, <<"stop_ramp", "pause">>)
    /\ UNCHANGED <<device_id, is_playing, current_volume, volume_ramp_active,
                   background_thread, current_playlist, current_tracks>>

StopPlayback ==
    /\ Idle
    /\ BeginStopPlayback(signalled)
    /\ UNCHANGED <<cli_phase, daemon_running, signalled, exit_status>>
    /\ UNCHANGED <<dev, cat>>

\* join returns because the worker thread has ended
JoinDone ==
    /\ fg_pc = "join"
    /\ ~ThreadAlive(background_thread)
    /\ fg_pc' = "api"
    /\ Logged(signalled, <<"pause">>)
    /\ UNCHANGED <<ctl, workers, fg_op, fg_arg, fg_result,
                   cli_phase, daemon_running, signalled, exit_status>>
    /\ UNCHANGED <<dev, cat>>

\* join(timeout=2) gives up: the worker sleeps longer than the timeout, or
\* is blocked in a remote call
JoinTimedOut ==
    /\ fg_pc = "join"
    /\ ThreadAlive(background_thread)
    /\ LET t == workers[background_thread]
       IN  \/ t.pc = "call"
           \/ t.pc = "sleep" /\ DelayExceeds(t.delay, JoinTimeout)
    /\ fg_pc' = "api"
    /\ Logged(signalled, <<"pause">>)
    /\ UNCHANGED <<ctl, workers, fg_op, fg_arg, fg_result,
                   cli_phase, daemon_running, signalled, exit_status>>
    /\ UNCHANGED <<dev, cat>>

\* the remote pause call of stop_playback returns or raises
StopPlaybackReturn ==
    /\ fg_pc = "api" /\ fg_op = "stop_playback"
    /\ \E ok \in BOOLEAN :
        /\ is_playing' = PlayingAfter(ok, FALSE)
        /\ volume_ramp_active' = IF ok THEN FALSE ELSE volume_ramp_active
        /\ Returned("stop_playback", <<>>, ok)
    /\ UNCHANGED <<device_id, current_volume, stop_background, background_thread,
                   current_playlist, current_tracks, workers, cli>>
    /\ UNCHANGED <<dev, cat>>

\* the lowest free worker slot
FreeSlot == CHOOSE w \in Slots : ~Alive(w) /\ \A v \in Slots : v < w => Alive(v)

\* the tail of start_volume_ramp: flag set, event cleared, thread created
\* and started.  Thread.start() returns once the new thread runs, and the
\* thread's first loop test (current_volume = start_volume) is taken with
\* it: the worker is asleep, or has already ended, when the call returns.
SpawnRamp(start_volume, end_volume, duration_seconds, increment) ==
    /\ stop_background' = FALSE
    /\ background_thread' = FreeSlot
    /\ IF LoopCond(start_volume, end_volume, FALSE, TRUE)
       THEN /\ volume_ramp_active' = TRUE
            /\ workers' = [workers EXCEPT ![FreeSlot] =
                   NewWorker(start_volume, end_volume, increment,
                             DelayPerIncrement(start_volume, end_volume,
                                               duration_seconds, increment))]
       ELSE /\ volume_ramp_active' = FALSE
            /\ workers' = workers

\* start_volume_ramp without its test of the ramp-active flag
RampRejectedZeroOnly(increment) == increment = 0

\* whether start_volume_ramp turns the call down before doing anything
RampRejected(increment) == volume_ramp_active \/ increment = 0

StartVolumeRamp(start_volume, end_volume, duration_seconds, increment) ==
    LET arg == <<start_volume, end_volume, duration_seconds, increment>>
    IN
    /\ Idle
    /\ IF RampRejected(increment)
       THEN \* already active, or ZeroDivisionError caught
            /\ Returned("start_volume_ramp", <<>>, FALSE)
            /\ UNCHANGED <<ctl, workers>>
       ELSE /\ \E w \in Slots : ~Alive(w)
            /\ IF SetVolumeValid(start_volume)
               THEN /\ InFlight("start_volume_ramp", arg)
                    /\ UNCHANGED <<ctl, workers>>
               ELSE \* set_volume(start_volume) turned down, no remote call
                    /\ SpawnRamp(start_volume, end_volume, duration_seconds, increment)
                    /\ Returned("start_volume_ramp", <<>>, TRUE)
                    /\ UNCHANGED <<device_id, is_playing, current_volume,
                                   current_playlist, current_tracks>>
    /\ UNCHANGED cli
    /\ UNCHANGED <<dev, cat>>

\* the remote call of set_volume(start_volume) returns or raises; the ramp
\* starts either way
StartVolumeRampReturn ==
    /\ fg_pc = "api" /\ fg_op = "start_volume_ramp"
    /\ \E ok \in BOOLEAN :
        current_volume' = VolumeAfterCall(ok, fg_arg[1])
    /\ SpawnRamp(fg_arg[1], fg_arg[2], fg_arg[3], fg_arg[4])
    /\ Returned("start_volume_ramp", <<>>, TRUE)
    /\ UNCHANGED <<device_id, is_playing, current_playlist, current_tracks, cli>>
    /\ UNCHANGED <<dev, cat>>

\* stop_volume_ramp taking a ramp to be active whatever the flag says
RampToStopAlways == TRUE

\* if self._volume_ramp_active:
RampToStop == volume_ramp_active

StopVolumeRamp ==
    /\ Idle
    /\ IF RampToStop
       THEN /\ volume_ramp_active' = FALSE
            /\ workers' = MarkCancel(workers, "stop_volume_ramp")
            /\ Returned("stop_volume_ramp", <<>>, TRUE)
       ELSE /\ Returned("stop_volume_ramp", <<>>, FALSE)
            /\ UNCHANGED <<volume_ramp_active, workers>>
    /\ UNCHANGED <<device_id, is_playing, current_volume, stop_background,
                   background_thread, current_playlist, current_tracks, cli>>
    /\ UNCHANGED <<dev, cat>>

(***************************************************************************)
(* The remaining playback calls: one remote call each.                     *)
(***************************************************************************)
StartPlayback(track_uris) ==
    /\ Idle
    /\ IF device_id = "none"
       THEN Returned("start_playback", track_uris, FALSE)
       ELSE InFlight("start_playback", track_uris)
    /\ UNCHANGED <<ctl, workers, cli>>
    /\ UNCHANGED <<dev, cat>>

StartPlaybackReturn ==
    /\ fg_pc = "api" /\ fg_op = "start_playback"
    /\ \E ok \in BOOLEAN :
        /\ is_playing' = PlayingAfter(ok, TRUE)
        /\ current_tracks' = IF ok THEN fg_arg ELSE current_tracks
        /\ Returned("start_playback", fg_arg, ok)
    /\ UNCHANGED <<device_id, current_volume, volume_ramp_active, stop_background,
                   background_thread, current_playlist, workers, cli>>
    /\ UNCHANGED <<dev, cat>>

\* play_playlist_with_ramp(track_uris, playlist_name): start_playback
\* first, which returns at once without a target device
PlayPlaylistWithRamp(track_uris, playlist_name) ==
    /\ Idle
    /\ IF device_id = "none"
       THEN Returned("play_playlist_with_ramp", <<track_uris, playlist_name>>, FALSE)
       ELSE InFlight("play_playlist_with_ramp", <<track_uris, playlist_name>>)
    /\ UNCHANGED <<ctl, workers, cli>>
    /\ UNCHANGED <<dev, cat>>

\* the remote call of its start_playback returns or raises; on success
\* start_volume_ramp follows with the default ramp: turned down when a
\* ramp is active (the playlist name is stored and success returned), or
\* its set_volume(start_volume) goes out
PlayPlaylistStarted ==
    /\ fg_pc = "api" /\ fg_op = "play_playlist_with_ramp"
    /\ \E ok \in BOOLEAN :
        /\ is_playing' = PlayingAfter(ok, TRUE)
        /\ current_tracks' = IF ok THEN fg_arg[1] ELSE current_tracks
        /\ IF ~ok
           THEN /\ Returned("play_playlist_with_ramp", fg_arg, FALSE)
                /\ UNCHANGED current_playlist
           ELSE IF RampRejected(IncrementDefault)
           THEN /\ Returned("play_playlist_with_ramp", fg_arg, TRUE)
                /\ current_playlist' = fg_arg[2]
           ELSE /\ \E w \in Slots : ~Alive(w)
                /\ InFlight("play_playlist_ramp", fg_arg)
                /\ UNCHANGED current_playlist
    /\ UNCHANGED <<device_id, current_volume, volume_ramp_active, stop_background,
                   background_thread, workers, cli>>
    /\ UNCHANGED <<dev, cat>>

\* the remote call of set_volume(start_volume) returns or raises, the ramp
\* starts, the playlist name is stored
PlayPlaylistRampStarted ==
    /\ fg_pc = "api" /\ fg_op = "play_playlist_ramp"
    /\ \E ok \in BOOLEAN :
        current_volume' = VolumeAfterCall(ok, RampStartDefault)
    /\ SpawnRamp(RampStartDefault, RampEndDefault, RampDurationDefault, IncrementDefault)
    /\ current_playlist' = fg_arg[2]
    /\ Returned("play_playlist_with_ramp", fg_arg, TRUE)
    /\ UNCHANGED <<device_id, is_playing, current_tracks, cli>>
    /\ UNCHANGED <<dev, cat>>

\* start_playlist_playback, after start_playback returned success: the
\* shell calls set_volume(default_volume); no ramp is started
PlaylistVolume ==
    /\ cli_phase = "interactive"
    /\ fg_pc = "done" /\ fg_op = "start_playback" /\ fg_result
    /\ IF SetVolumeValid(DefaultVolume)
       THEN InFlight("set_volume", <<DefaultVolume, fg_arg>>)
       ELSE Returned("set_volume", <<DefaultVolume, fg_arg>>, FALSE)
    /\ UNCHANGED <<ctl, workers, cli, dev, cat>>

\* the shell is back at its prompt, start_playlist_playback having made
\* its set_volume call if playback started
ShellReturn ==
    /\ ~(fg_op = "start_playback" /\ fg_result)
    /\ ~(fg_op = "get_playback_state" /\ fg_result)
    /\ FgReturn

\* state['progress_ms'] // 60000 raises TypeError on null
InfoRaises(progress_ms) == progress_ms = <<>>

\* the info command, get_playback_state having returned a state: the shell
\* formats progress_ms; a TypeError leaves handle_command and the loop, and
\* the finally block of run_interactive_mode runs
ShowInfo ==
    /\ cli_phase = "interactive"
    /\ fg_pc = "done" /\ fg_op = "get_playback_state" /\ fg_result
    /\ \E progress_ms \in ProgressValues :
        IF InfoRaises(progress_ms)
        THEN /\ cli_phase' = "unwinding"
             /\ BeginStopPlayback(signalled)
        ELSE /\ fg_pc' = "idle"
             /\ fg_op' = "none"
             /\ fg_arg' = <<>>
             /\ fg_result' = FALSE
             /\ UNCHANGED <<ctl, workers, cli_phase, shutdown_log>>
    /\ UNCHANGED <<daemon_running, signalled, exit_status, dev, cat>>

PausePlayback ==
    /\ Idle
    /\ InFlight("pause_playback", <<>>)
    /\ UNCHANGED <<ctl, workers, cli>>
    /\ UNCHANGED <<dev, cat>>

PausePlaybackReturn ==
    /\ fg_pc = "api" /\ fg_op = "pause_playback"
    /\ \E ok \in BOOLEAN :
        /\ is_playing' = PlayingAfter(ok, FALSE)
        /\ Returned("pause_playback", <<>>, ok)
    /\ UNCHANGED <<device_id, current_volume, volume_ramp_active, stop_background,
                   background_thread, current_playlist, current_tracks,
                   workers, cli>>
    /\ UNCHANGED <<dev, cat>>

ResumePlayback ==
    /\ Idle
    /\ InFlight("resume_playback", <<>>)
    /\ UNCHANGED <<ctl, workers, cli>>
    /\ UNCHANGED <<dev, cat>>

ResumePlaybackReturn ==
    /\ fg_pc = "api" /\ fg_op = "resume_playback"
    /\ \E ok \in BOOLEAN :
        /\ is_playing' = PlayingAfter(ok, TRUE)
        /\ Returned("resume_playback", <<>>, ok)
    /\ UNCHANGED <<device_id, current_volume, volume_ramp_active, stop_background,
                   background_thread, current_playlist, current_tracks,
                   workers, cli>>
    /\ UNCHANGED <<dev, cat>>

\* next_track, previous_track, get_playback_state: a remote call, no field
\* of the controller written
QueryOps == {"next_track", "previous_track", "get_playback_state"}

NextTrack ==
    /\ Idle
    /\ InFlight("next_track", <<>>)
    /\ UNCHANGED <<ctl, workers, cli>>
    /\ UNCHANGED <<dev, cat>>

PreviousTrack ==
    /\ Idle
    /\ InFlight("previous_track", <<>>)
    /\ UNCHANGED <<ctl, workers, cli>>
    /\ UNCHANGED <<dev, cat>>

GetPlaybackState ==
    /\ Idle
    /\ InFlight("get_playback_state", <<>>)
    /\ UNCHANGED <<ctl, workers, cli>>
    /\ UNCHANGED <<dev, cat>>

QueryReturn ==
    /\ fg_pc = "api" /\ fg_op \in QueryOps
    /\ \E ok \in BOOLEAN : Returned(fg_op, <<>>, ok)
    /\ UNCHANGED <<ctl, workers, cli>>
    /\ UNCHANGED <<dev, cat>>

(***************************************************************************)
(* The ramp worker thread in slot w.  "sleep": in time.sleep(delay);       *)
(* "call": its set_volume is in flight; "dead": ended (a free slot).       *)
(***************************************************************************)
Running == cli_phase # "exited"

\* leaving the loop: the flag is cleared and the thread ends
WorkerExit(w) ==
    /\ workers' = [workers EXCEPT ![w] = DeadWorker]
    /\ volume_ramp_active' = FALSE

\* the loop condition, evaluated by the worker whose record is rec
WorkerLoop(w, rec) ==
    IF LoopCond(rec.current_volume, rec.end_volume, stop_background, volume_ramp_active)
    THEN /\ workers' = [workers EXCEPT ![w] = [rec EXCEPT !.pc = "sleep"]]
         /\ UNCHANGED volume_ramp_active
    ELSE WorkerExit(w)

\* whether the woken worker goes on to a step (FALSE: it breaks out)
WakeProceeds == ~stop_background

\* time.sleep returns: test the event, then step and call set_volume
WorkerWake(w) ==
    /\ Running
    /\ workers[w].pc = "sleep"
    /\ IF WakeProceeds
       THEN /\ workers[w].ticks < MaxTicks
            /\ LET r == workers[w]
                   rec == [r EXCEPT
                             !.current_volume =
                                 NextStep(r.current_volume, r.increment, r.end_volume),
                             !.ticks = @ + 1,
                             !.woke = r.cancel]
               IN  IF SetVolumeValid(rec.current_volume)
                   THEN /\ workers' = [workers EXCEPT ![w] = [rec EXCEPT !.pc = "call"]]
                        /\ UNCHANGED volume_ramp_active
                   ELSE WorkerLoop(w, rec)
       ELSE WorkerExit(w)
    /\ is_playing' = PlayingAfterWorker(workers'[w].pc = "dead")
    /\ UNCHANGED <<device_id, current_volume, stop_background,
                   background_thread, current_playlist, current_tracks, fg, cli>>
    /\ UNCHANGED <<dev, cat>>

\* the worker's remote call returns (ok) or raises, then the loop test
WorkerCallResult(w, ok) ==
    /\ Running
    /\ workers[w].pc = "call"
    /\ current_volume' = VolumeAfterCall(ok, workers[w].current_volume)
    /\ WorkerLoop(w, workers[w])
    /\ is_playing' = PlayingAfterWorker(workers'[w].pc = "dead")
    /\ UNCHANGED <<device_id, stop_background, background_thread,
                   current_playlist, current_tracks, fg, cli>>
    /\ UNCHANGED <<dev, cat>>

WorkerCallReturn(w) == \E ok \in BOOLEAN : WorkerCallResult(w, ok)

WorkerNext == \E w \in Slots : WorkerWake(w) \/ WorkerCallReturn(w)

\* a worker whose steps take it down and that is below the range: every
\* later value of it is below the range and below end_volume too
Falling(w) ==
    /\ workers[w].increment < 0
    /\ workers[w].current_volume < MinVolume
    /\ workers[w].current_volume < workers[w].end_volume

\* time.sleep returns for a falling worker that has taken MaxTicks steps:
\* its values are no longer told apart; it steps, and set_volume turns the
\* value down ("turned_down": back from set_volume, before the loop test)
WorkerWakeBelow(w) ==
    /\ Running
    /\ workers[w].pc = "sleep"
    /\ workers[w].ticks = MaxTicks
    /\ Falling(w)
    /\ IF WakeProceeds
       THEN /\ workers' = [workers EXCEPT ![w].pc = "turned_down",
                                          ![w].woke = workers[w].cancel]
            /\ UNCHANGED volume_ramp_active
       ELSE WorkerExit(w)
    /\ UNCHANGED <<device_id, is_playing, current_volume, stop_background,
                   background_thread, current_playlist, current_tracks, fg, cli>>
    /\ UNCHANGED <<dev, cat>>

\* the loop test of that worker
WorkerTurnedDown(w) ==
    /\ Running
    /\ workers[w].pc = "turned_down"
    /\ WorkerLoop(w, workers[w])
    /\ UNCHANGED <<device_id, is_playing, current_volume, stop_background,
                   background_thread, current_playlist, current_tracks, fg, cli>>
    /\ UNCHANGED <<dev, cat>>

\* every step a worker can take
WorkerRuns(w) ==
    \/ WorkerWake(w)
    \/ WorkerCallReturn(w)
    \/ WorkerWakeBelow(w)
    \/ WorkerTurnedDown(w)

(***************************************************************************)
(* The shell process: setup_device, the signal handler installed by the    *)
(* controller, and the cleanup of run_interactive_mode.                    *)
(***************************************************************************)
\* main: the status the process exits with once run has returned
\* run_result; the value is not looked at
MainStatus(run_result) == 0

\* run returns run_result to main, and the process exits
RunReturns(run_result) ==
    /\ cli_phase' = "exited"
    /\ exit_status' = MainStatus(run_result)

\* load_config: the file is read, or is missing or malformed
LoadConfig ==
    /\ cli_phase = "load_config"
    /\ \E ok \in BOOLEAN :
        IF ok
        THEN cli_phase' = "init_components" /\ UNCHANGED exit_status
        ELSE RunReturns(FALSE)
    /\ UNCHANGED <<ctl, workers, fg, daemon_running, signalled, shutdown_log, dev, cat>>

\* initialize_components: platform detection, authentication, construction
\* of the managers and the controller; any failure is caught
InitializeComponents ==
    /\ cli_phase = "init_components"
    /\ \E ok \in BOOLEAN :
        IF ok
        THEN cli_phase' = "setup_daemon" /\ UNCHANGED exit_status
        ELSE RunReturns(FALSE)
    /\ UNCHANGED <<ctl, workers, fg, daemon_running, signalled, shutdown_log, dev, cat>>

\* ensure_spotifyd_ready as setup_device sees it, the binary being
\* installed: the daemon runs afterwards, or setup fails (its steps are
\* EnsureSpotifydReady and the actions that follow it)
EnsureReady ==
    /\ cli_phase = "setup_daemon"
    /\ \E ok \in BOOLEAN :
        IF ok \/ daemon_running
        THEN /\ daemon_running' = TRUE
             /\ procs' = IF procs = {} THEN {1} ELSE procs
             /\ cli_phase' = "setup_wait"
             /\ UNCHANGED exit_status
        ELSE /\ daemon_running' = FALSE
             /\ procs' = {}
             /\ RunReturns(FALSE)
    /\ UNCHANGED <<ctl, workers, fg, signalled, shutdown_log,
                   binary, dm_stack, dm_pid, dm_result, dm_log, dm_calls, cat>>

\* time.sleep(3), then set_device(device_name=...)
SetDevice ==
    /\ cli_phase = "setup_wait"
    /\ \E ok \in BOOLEAN :
        IF ok
        THEN /\ device_id' = DeviceName
             /\ cli_phase' = "interactive"
             /\ UNCHANGED exit_status
        ELSE /\ device_id' = device_id
             /\ RunReturns(FALSE)
    /\ UNCHANGED <<is_playing, current_volume, volume_ramp_active, stop_background,
                   background_thread, current_playlist, current_tracks,
                   workers, fg, daemon_running, signalled, shutdown_log>>
    /\ UNCHANGED <<dev, cat>>

\* SIGINT/SIGTERM: _signal_handler runs on the main thread, whatever it was
\* doing, and calls stop_playback
Signal ==
    /\ cli_phase \in {"setup_daemon", "setup_wait", "interactive"}
    /\ signalled' = TRUE
    /\ cli_phase' = IF cli_phase = "interactive" THEN "handler_loop" ELSE "handler_setup"
    /\ BeginStopPlayback(TRUE)
    /\ UNCHANGED <<daemon_running, exit_status>>
    /\ UNCHANGED <<dev, cat>>

\* sys.exit(0) in the handler: SystemExit unwinds the main thread; inside
\* run_interactive_mode the finally block runs, first stop_playback
HandlerExit ==
    /\ cli_phase \in {"handler_setup", "handler_loop"}
    /\ fg_pc = "done"
    /\ IF cli_phase = "handler_loop"
       THEN /\ cli_phase' = "cleanup"
            /\ BeginStopPlayback(signalled)
            /\ UNCHANGED exit_status
       ELSE /\ cli_phase' = "exited"
            /\ exit_status' = HandlerStatus
            /\ UNCHANGED <<ctl, workers, fg, shutdown_log>>
    /\ UNCHANGED <<daemon_running, signalled>>
    /\ UNCHANGED <<dev, cat>>

\* quit or end of input: the loop ends and the finally block runs
Quit ==
    /\ Idle
    /\ cli_phase' = "cleanup"
    /\ BeginStopPlayback(signalled)
    /\ UNCHANGED <<daemon_running, signalled, exit_status>>
    /\ UNCHANGED <<dev, cat>>

\* the finally block's stop_spotifyd, then the process ends: run returns
\* to main, or the exception that ended the loop reaches main
StopSpotifyd ==
    /\ cli_phase \in {"cleanup", "unwinding"}
    /\ fg_pc = "done"
    /\ daemon_running' = FALSE
    /\ procs' = {}
    /\ Logged(signalled, <<"stop_daemon">>)
    /\ cli_phase' = "exited"
    /\ exit_status' = IF signalled THEN HandlerStatus
                       ELSE IF cli_phase = "unwinding" THEN RaisedStatus
                       ELSE MainStatus(TRUE)
    /\ UNCHANGED <<ctl, workers, fg, signalled,
                   binary, dm_stack, dm_pid, dm_result, dm_log, dm_calls, cat>>

\* The controller under an arbitrary caller, with its ramp workers.
Next ==
    \/ LoadConfig
    \/ InitializeComponents
    \/ EnsureReady
    \/ SetDevice
    \/ \E volume \in VolumeArgs : SetVolume(volume)
    \/ SetVolumeReturn
    \/ \E s \in RampStarts, e \in RampEnds, d \in RampDurations, i \in RampIncrements :
          StartVolumeRamp(s, e, d, i)
    \/ StartVolumeRampReturn
    \/ StopVolumeRamp
    \/ StopPlayback
    \/ JoinDone
    \/ JoinTimedOut
    \/ StopPlaybackReturn
    \/ PausePlayback
    \/ PausePlaybackReturn
    \/ NextTrack
    \/ PreviousTrack
    \/ GetPlaybackState
    \/ QueryReturn
    \/ FgReturn
    \/ WorkerNext

Spec == Init /\ [][Next]_vars

\* The shell process: the commands of handle_command, signals and cleanup.
ShellNext ==
    \/ LoadConfig
    \/ InitializeComponents
    \/ EnsureReady
    \/ SetDevice
    \/ \E volume \in VolumeArgs : SetVolume(volume)
    \/ SetVolumeReturn
    \/ StopPlayback
    \/ StopPlaybackReturn
    \/ \E t \in TrackLists : StartPlayback(t)
    \/ StartPlaybackReturn
    \/ PausePlayback
    \/ PausePlaybackReturn
    \/ ResumePlayback
    \/ ResumePlaybackReturn
    \/ NextTrack
    \/ PreviousTrack
    \/ GetPlaybackState
    \/ QueryReturn
    \/ PlaylistVolume
    \/ ShowInfo
    \/ ShellReturn
    \/ Signal
    \/ HandlerExit
    \/ Quit
    \/ StopSpotifyd

ShellSpec == Init /\ [][ShellNext]_vars

\* The playback session under a caller that plays, pauses, resumes and
\* stops, with the ramp of play_playlist_with_ramp.
SessionNext ==
    \/ \E t \in TrackLists : StartPlayback(t)
    \/ StartPlaybackReturn
    \/ \E t \in TrackLists, name \in PlaylistNames : PlayPlaylistWithRamp(t, name)
    \/ PlayPlaylistStarted
    \/ PlayPlaylistRampStarted
    \/ PausePlayback
    \/ PausePlaybackReturn
    \/ ResumePlayback
    \/ ResumePlaybackReturn
    \/ StopPlayback
    \/ JoinDone
    \/ JoinTimedOut
    \/ StopPlaybackReturn
    \/ FgReturn
    \/ WorkerNext

SessionSpec == SessionInit /\ [][SessionNext]_vars

\* Ramps left to run: start_volume_ramp is the only call made.  A worker
\* thread that can take a step takes one: time.sleep returns, and a remote
\* call returns or raises.
RampNext ==
    \/ \E s \in RampStarts, e \in RampEnds, d \in RampDurations, i \in RampIncrements :
          StartVolumeRamp(s, e, d, i)
    \/ StartVolumeRampReturn
    \/ FgReturn
    \/ \E w \in Slots : WorkerRuns(w)

RampSpec ==
    /\ SessionInit
    /\ [][RampNext]_vars
    /\ \A w \in Slots : WF_vars(WorkerRuns(w))

\* The playlist manager under an arbitrary caller.
CatalogNext ==
    \/ \E own \in OwnPlaylists, public \in PublicPlaylists, limit \in SearchLimits,
          own_ok \in BOOLEAN, public_ok \in BOOLEAN :
          SearchPlaylists(own, public, limit, own_ok, public_ok)
    \/ \E n \in PlaylistSizes, missing \in MissingItems : GetPlaylistTracks(n, missing)
    \/ \E ok \in BOOLEAN : FetchPage(ok)
    \/ CatReturn

CatalogSpec == Init /\ [][CatalogNext]_vars

\* The device manager under an arbitrary caller, on a host whose process
\* table changes.
DaemonNext ==
    \/ \E force_reinstall \in BOOLEAN : InstallSpotifyd(force_reinstall)
    \/ \E outcome \in {"error", "no_asset", "asset"} : InstallMeta(outcome)
    \/ \E outcome \in {"error", "no_member", "member"} : InstallDownload(outcome)
    \/ \E background \in BOOLEAN : StartSpotifyd(background)
    \/ StartAfterInstall
    \/ StartSettle
    \/ StopSpotifydBegin
    \/ StopSpotifydGrace
    \/ RestartSpotifyd
    \/ RestartAfterStop
    \/ RestartAfterStart
    \/ \E given \in BOOLEAN : EnsureSpotifydReady(given)
    \/ EnsureAfterInstall
    \/ EnsureAfterStart
    \/ DevReturn
    \/ \E p \in Pids : ProcExit(p)
    \/ \E p \in Pids : ExternalStart(p)

DaemonSpec == DaemonInit /\ [][DaemonNext]_vars

(***************************************************************************)
(* Properties.                                                             *)
(***************************************************************************)
VolumeRange == MinVolume..MaxVolume

\* the volume-set calls in flight: <<caller, value>>
VolumeCallsInFlight ==
    (IF fg_pc = "api" /\ fg_op \in {"set_volume", "start_volume_ramp"}
     THEN {<<NoThread, fg_arg[1]>>}
     ELSE {})
    \cup {<<w, workers[w].current_volume>> : w \in {v \in Slots : workers[v].pc = "call"}}

\* the callers with any remote call in flight (0: the foreground thread)
CallersInFlight ==
    (IF fg_pc = "api" THEN {NoThread} ELSE {})
    \cup {w \in Slots : workers[w].pc = "call"}

\* C1: in every reachable state the stored current volume is in [0,100],
\* and every volume-set call in flight to the remote API carries a value in
\* [0,100].
C1_VolumeInRange ==
    /\ current_volume \in VolumeRange
    /\ \A c \in VolumeCallsInFlight : c[2] \in VolumeRange

\* C1 witness: a live worker whose last step was out of range (and so was
\* turned down before the remote API) while a volume call is in flight.
C1_Witness ==
    /\ \E w \in Slots :
          /\ Alive(w)
          /\ workers[w].ticks > 0
          /\ workers[w].current_volume \notin VolumeRange
    /\ VolumeCallsInFlight # {}

\* a worker that is issuing a volume-set call or will issue one when it
\* wakes up
CanIssue(w) ==
    \/ workers[w].pc = "call"
    \/ /\ workers[w].pc = "sleep"
       /\ ~stop_background
       /\ NextStep(workers[w].current_volume, workers[w].increment,
                   workers[w].end_volume) \in VolumeRange

\* C2 (as claimed): at most one ramp worker is alive and still able to
\* issue volume-set calls.
C2_AtMostOneWorker == Cardinality({w \in Slots : CanIssue(w)}) <= 1

\* the foreground call of set_volume has just returned
SetVolumeReturned == fg_pc = "done" /\ fg_op = "set_volume"

\* C3 (as claimed): set_volume(v) returns success if and only if
\* 0 <= v <= 100.
C3_SuccessIffInRange ==
    SetVolumeReturned => (fg_result <=> fg_arg[1] \in VolumeRange)

\* C3 (amended): set_volume(v) returns success and stores v if and only if
\* 0 <= v <= 100 and the remote call succeeds; when v is out of range it
\* returns failure at once, with no remote call; whenever it returns
\* failure the controller's fields and the workers are unchanged.
C3_SetVolume ==
    [][ /\ \A v \in VolumeArgs :
            (SetVolume(v) /\ v \notin VolumeRange) =>
                /\ fg_pc' = "done" /\ ~fg_result'
                /\ UNCHANGED <<ctl, workers>>
        /\ \A v \in VolumeArgs :
            (SetVolume(v) /\ v \in VolumeRange) => fg_pc' = "api"
        /\ \A ok \in BOOLEAN :
            SetVolumeResult(ok) =>
                /\ fg_pc' = "done" /\ fg_result' = ok
                /\ fg_arg[1] \in VolumeRange
                /\ ok => current_volume' = fg_arg[1]
                /\ ~ok => UNCHANGED <<ctl, workers>>
      ]_vars

\* C3 witness: set_volume with a value in range has returned failure.
C3_Witness == SetVolumeReturned /\ fg_arg[1] \in VolumeRange /\ ~fg_result

\* C4 (as claimed): a worker that has woken up after stop_volume_ramp
\* returned issues no volume-set call.
C4_NoCallAfterStop ==
    \A w \in Slots :
        "stop_volume_ramp" \in workers[w].woke => workers[w].pc # "call"

\* the ramp in slot w satisfies 0 <= start < end <= 100, increment >= 1
ValidRamp(w) ==
    /\ MinVolume <= workers[w].start_volume
    /\ workers[w].start_volume < workers[w].end_volume
    /\ workers[w].end_volume <= MaxVolume
    /\ workers[w].increment >= 1

\* C5 (as claimed): a ramp with 0 <= start < end <= 100, increment >= 1
\* that was never cancelled and whose last remote call did not fail ends
\* with the stored volume exactly end and the ramp-active flag false.
C5_RampReachesEnd ==
    [][ \A w \in Slots :
          ( /\ Alive(w) /\ workers'[w].pc = "dead"
            /\ ValidRamp(w)
            /\ workers[w].cancel = {}
            /\ ~WorkerCallResult(w, FALSE) )
          => (current_volume' = workers[w].end_volume /\ ~volume_ramp_active')
      ]_vars

\* C6 (as claimed): a worker that has woken up once after cancellation was
\* requested (by stop_playback or stop_volume_ramp) never sleeps again.
C6_ExitsAtNextWake ==
    \A w \in Slots : workers[w].woke # {} => workers[w].pc # "sleep"

\* C7: start_volume_ramp called while the ramp-active flag is set returns
\* failure at once: no remote call, no new worker, and the controller's
\* fields (current volume and ramp-active flag among them) unchanged.
C7_RampAlreadyActive ==
    [][ (fg_pc = "idle" /\ fg_op' = "start_volume_ramp" /\ volume_ramp_active)
          => /\ fg_pc' = "done" /\ ~fg_result'
             /\ UNCHANGED <<ctl, workers>>
      ]_vars

\* C7 witness: start_volume_ramp has returned failure while a ramp is
\* active and its worker alive.
C7_Witness ==
    /\ fg_pc = "done" /\ fg_op = "start_volume_ramp" /\ ~fg_result
    /\ volume_ramp_active
    /\ ThreadAlive(background_thread)

\* ramp cancelled, then playback paused, then daemon stopped
ShutdownInOrder(log) ==
    \E i, j, k \in 1..Len(log) :
        /\ i < j /\ j < k
        /\ log[i] = "stop_ramp" /\ log[j] = "pause" /\ log[k] = "stop_daemon"

\* ramp cancelled, then playback paused
CancelThenPause(log) ==
    \E i, j \in 1..Len(log) : i < j /\ log[i] = "stop_ramp" /\ log[j] = "pause"

\* C8 (as claimed): a process that exits after an interrupt or terminate
\* signal has cancelled the ramp, paused remote playback and stopped the
\* daemon, in this order.  (A process that exits with no daemon running is
\* not held against the claim.)
C8_ShutdownOrder ==
    (cli_phase = "exited" /\ signalled) =>
        /\ CancelThenPause(shutdown_log)
        /\ ShutdownInOrder(shutdown_log) \/ ~daemon_running

\* C9 (as claimed): no two remote API calls are in flight at the same time.
C9_NoConcurrentCalls == Cardinality(CallersInFlight) <= 1

\* the k-th step of the ramp in slot w
RampStep(w, k) ==
    Min(workers[w].start_volume + k * workers[w].increment, workers[w].end_volume)

\* C10: a worker's tick issues the ramp's own next step, whatever the
\* stored volume is; a successful worker call stores that step; and the
\* stored volume changes only in a step in which a volume-set call returns
\* successfully, to that call's value.
C10_LastWriteWins ==
    [][ /\ \A w \in Slots :
            (workers[w].pc = "sleep" /\ workers'[w].pc = "call") =>
                workers'[w].current_volume = RampStep(w, workers[w].ticks + 1)
        /\ \A w \in Slots :
            WorkerCallResult(w, TRUE) =>
                current_volume' = RampStep(w, workers[w].ticks)
        /\ current_volume' # current_volume =>
                \E c \in VolumeCallsInFlight : current_volume' = c[2]
      ]_vars

\* C10 witness: the stored volume is a value the user set, not a step of
\* the active ramp, and the ramp's worker has its own next step in flight.
C10_Witness ==
    /\ volume_ramp_active
    /\ ThreadAlive(background_thread)
    /\ workers[background_thread].pc = "call"
    /\ workers[background_thread].current_volume
          = RampStep(background_thread, workers[background_thread].ticks)
    /\ current_volume \in VolumeArgs
    /\ \A k \in 0..MaxTicks + 1 : current_volume # RampStep(background_thread, k)

\* the ids of the playlists of a list
Ids(playlists) == {playlists[i].id : i \in 1..Len(playlists)}

\* search_playlists has just returned
SearchReturned == cat_pc = "done" /\ cat_op = "search_playlists"

\* C12: search_playlists returns a list in which no two entries share an
\* id; an id found by both the own-playlists branch and the public search
\* is in the list, and its one entry is the own-playlists branch's.
C12_Deduplicated ==
    SearchReturned =>
        /\ \A i, j \in 1..Len(cat_result) :
              i # j => cat_result[i].id # cat_result[j].id
        /\ \A x \in Ids(cat_local.user_playlists) \cap Ids(cat_local.public_playlists) :
              \E i \in 1..Len(cat_result) :
                  cat_result[i].id = x /\ cat_result[i].is_own

\* C12 witness: both branches found the same id, and the list returned
\* also holds a public result.
C12_Witness ==
    /\ SearchReturned
    /\ Ids(cat_local.user_playlists) \cap Ids(cat_local.public_playlists) # {}
    /\ \E i \in 1..Len(cat_result) : ~cat_result[i].is_own

\* get_playlist_tracks has just returned
TracksReturned == cat_pc = "done" /\ cat_op = "get_playlist_tracks"

\* ceil(n / page size), one for an empty playlist
CeilPages(n) == IF n = 0 THEN 1 ELSE (n + PageSize - 1) \div PageSize

\* C13: get_playlist_tracks on a playlist of n items served in pages of 100,
\* no fetch failing, issues exactly ceil(n/100) page fetches (one when
\* n = 0) and returns the URIs of the items' tracks in their original
\* order: all n of them when every item has a track.
C13_Pagination ==
    (TracksReturned /\ ~cat_local.failed) =>
        /\ cat_local.fetches = CeilPages(cat_in.n)
        /\ cat_result = SelectSeq([k \in 1..cat_in.n |-> k],
                                  LAMBDA k : k \notin cat_in.missing)
        /\ cat_in.missing = {} => cat_result = [k \in 1..cat_in.n |-> k]

\* C13 witness: 250 tracks returned after exactly 3 fetches.
C13_Witness ==
    /\ TracksReturned
    /\ cat_in.n = 250
    /\ cat_local.fetches = 3
    /\ Len(cat_result) = 250

\* start_playlist_playback has started playback and made its last call
PlaylistHandled == fg_pc = "done" /\ fg_op = "set_volume" /\ Len(fg_arg) = 2

\* C11 (as claimed): once the shell has handled the selection of a
\* playlist (tracks fetched, playback started), a volume ramp has begun:
\* is_volume_ramping() is true.
C11_RampAfterSelection == PlaylistHandled => volume_ramp_active

\* run has returned failure to main during startup
StartupFailed ==
    cli_phase = "exited" /\ ~signalled /\ device_id = "none"

\* C20 (as claimed): a process whose startup failed fatally (configuration,
\* authentication or platform, daemon or device setup) has exited with a
\* non-zero status.
C20_FatalStartupExit == StartupFailed => exit_status # 0

\* C21 (as claimed): the command loop of the shell ends only on quit or
\* end of input, or on an interrupt; after every other command, failed
\* or not, the shell is back in the loop.
C21_LoopSurvives ==
    [][ (cli_phase = "interactive" /\ cli_phase' # "interactive")
          => (Quit \/ Signal) ]_vars

\* get_status()['track_count']
TrackCount == Len(current_tracks)

\* stop_playback has just returned success
StopPlaybackSucceeded == fg_pc = "done" /\ fg_op = "stop_playback" /\ fg_result

\* C22 (as claimed): when stop_playback has returned success the session
\* is reset: is_playing false, the ramp-active flag false, no current
\* playlist name, and a loaded track count of 0.
C22_ResetOnStop ==
    StopPlaybackSucceeded =>
        /\ ~is_playing
        /\ ~volume_ramp_active
        /\ current_playlist = "none"
        /\ TrackCount = 0

\* C23: stop_volume_ramp called while the ramp-active flag is false changes
\* no field of the session, leaves every worker as it is (none started,
\* none stopped or asked to stop) and returns with no remote call issued;
\* so does every further call in that state.
C23_StopRampIdempotent ==
    [][ (StopVolumeRamp /\ ~volume_ramp_active)
          => /\ UNCHANGED <<ctl, workers>>
             /\ fg_pc' = "done"
      ]_vars

\* C23 witness: stop_volume_ramp has returned from a call made with the
\* flag false while a worker of an earlier ramp is alive, and the worker
\* has not been asked to stop a second time.
C23_Witness ==
    /\ fg_pc = "done" /\ fg_op = "stop_volume_ramp" /\ ~fg_result
    /\ ~volume_ramp_active
    /\ \E w \in Slots : Alive(w) /\ workers[w].cancel = {"stop_volume_ramp"}

\* C24 (as claimed): start_volume_ramp called with no ramp active, for any
\* start, end, duration and increment, does not return failure; and a
\* worker started for a ramp whose number of steps is not positive sleeps
\* the minimum delay of 1 second.
C24_NoDivisionByZero ==
    [][ /\ \A s \in RampStarts, e \in RampEnds, d \in RampDurations,
              i \in RampIncrements :
            (StartVolumeRamp(s, e, d, i) /\ ~volume_ramp_active)
                => ~(fg_pc' = "done" /\ ~fg_result')
        /\ \A w \in Slots :
            ( /\ ~Alive(w) /\ workers'[w].pc # "dead"
              /\ TotalIncrements(workers'[w].start_volume, workers'[w].end_volume,
                                 workers'[w].increment) <= 0 )
                => workers'[w].delay = <<MinDelay, 1>>
      ]_vars

\* C25: for increment >= 1, the value a ramp worker passes to set_volume
\* in a step is its previous value plus increment, clamped to end_volume;
\* it is above the previous value, above start_volume, and not above
\* end_volume.
C25_RampMonotone ==
    [][ \A w \in Slots :
          ( /\ workers[w].pc = "sleep"
            /\ workers[w].increment >= 1
            /\ workers'[w].pc # "dead"
            /\ workers'[w].ticks = workers[w].ticks + 1 )
          => /\ workers'[w].current_volume =
                    Min(workers[w].current_volume + workers[w].increment,
                        workers[w].end_volume)
             /\ workers'[w].current_volume > workers[w].current_volume
             /\ workers'[w].current_volume > workers[w].start_volume
             /\ workers'[w].current_volume <= workers[w].end_volume
      ]_vars

\* C25 witness: a worker's second call is in flight, carrying end_volume
\* where the unclamped step would have passed it.
C25_Witness ==
    \E w \in Slots :
        /\ workers[w].pc = "call"
        /\ workers[w].increment >= 1
        /\ workers[w].ticks = 2
        /\ workers[w].current_volume = workers[w].end_volume
        /\ workers[w].start_volume + 2 * workers[w].increment > workers[w].end_volume

\* a step of a ramp worker: a worker's record changes and the foreground
\* thread stands still
WorkerStep == workers' # workers /\ UNCHANGED fg

\* C26: a step of a ramp worker changes, of the session's fields, only
\* the stored current volume and the ramp-active flag: the device id,
\* is_playing, the current playlist name and the loaded track list are
\* unchanged, and so are the stop event and the thread reference.
C26_WorkerFrame ==
    [][ WorkerStep =>
          UNCHANGED <<device_id, is_playing, current_playlist, current_tracks,
                      stop_background, background_thread>>
      ]_vars

\* C26 witness: a worker has taken a step and is alive while playback is
\* on, a playlist name is stored and tracks are loaded.
C26_Witness ==
    /\ \E w \in Slots : Alive(w) /\ workers[w].ticks > 0
    /\ is_playing
    /\ current_playlist \in PlaylistNames
    /\ current_tracks # <<>>
    /\ device_id = DeviceName

\* the operations that write is_playing, by the name of their remote call
PlayOps ==
    {"start_playback", "pause_playback", "resume_playback", "stop_playback",
     "play_playlist_with_ramp"}

\* the foreground operation returns failure in this step
ReturnsFailure == fg_pc # "done" /\ fg_pc' = "done" /\ ~fg_result'

\* C30: is_playing changes only in a step in which the remote call of
\* start_playback, pause_playback, resume_playback or stop_playback
\* returns successfully; a step in which one of them returns failure (the
\* remote call raised, or start_playback has no target device) leaves
\* is_playing and the loaded track list unchanged; start_playback without
\* a target device returns failure at once.
C30_PlayingOnSuccess ==
    [][ /\ is_playing' # is_playing =>
              (fg_pc = "api" /\ fg_op \in PlayOps /\ ~ReturnsFailure)
        /\ (ReturnsFailure /\ fg_op' \in PlayOps) =>
              UNCHANGED <<is_playing, current_tracks>>
        /\ (fg_pc = "idle" /\ fg_op' = "start_playback" /\ device_id = "none") =>
              ReturnsFailure
      ]_vars

\* C30 witness: start_playback has returned failure from its remote call
\* while playback is on and another track list is loaded.
C30_Witness ==
    /\ fg_pc = "done" /\ fg_op = "start_playback" /\ ~fg_result
    /\ device_id = DeviceName
    /\ is_playing
    /\ current_tracks # <<>>
    /\ current_tracks # fg_arg

\* C27 (as claimed): every ramp that start_volume_ramp has started ends
\* without being cancelled: its worker leaves the loop, and the
\* ramp-active flag is cleared.
C27_RampTerminates ==
    \A w \in Slots : (workers[w].pc # "dead") ~> (workers[w].pc = "dead")

\* lg lists the event e
Has(lg, e) == \E i \in 1..Len(lg) : lg[i] = e

\* the attempts to launch the daemon (Popen) that lg lists
LaunchAttempts(lg) ==
    Cardinality({i \in 1..Len(lg) : lg[i] \in {"launch", "launch_failed"}})

\* the step in which the operation op, called from outside, returns
ReturnStep(op) ==
    /\ ~At(op, "done")
    /\ Len(dm_stack') = 1
    /\ dm_stack'[1].op = op
    /\ dm_stack'[1].pc = "done"

\* the step in which start_spotifyd, called from outside, returns
StartReturnStep == ReturnStep("start")

\* C14 (as claimed): start_spotifyd returns success only if the daemon is
\* observed running when it returns; if the daemon is running at the call
\* it launches no process and returns success; otherwise it makes one
\* launch, or returns failure because the binary could not be installed.
C14_StartAsClaimed ==
    [][ StartReturnStep =>
          /\ dm_result' => procs' # {}
          /\ Has(dm_log', "called_running") =>
                (dm_result' /\ LaunchAttempts(dm_log') = 0)
          /\ ~Has(dm_log', "called_running") =>
                \/ Has(dm_log', "install_failed") /\ ~dm_result'
                \/ LaunchAttempts(dm_log') = 1
      ]_vars

\* C14 (amended): start_spotifyd first installs the binary if it is not
\* installed, and returns failure without a launch if that fails, whether
\* or not a daemon is running.  Then, if a daemon is observed running, it
\* launches nothing and returns success; otherwise it makes exactly one
\* launch attempt, returns failure if the launch raises, and else returns
\* after the settle delay what it observes then (background: a matching
\* process; foreground: its child alive).  Success is returned only with a
\* daemon process present.
C14_Start ==
    [][ StartReturnStep =>
          /\ dm_result' => procs' # {}
          /\ Has(dm_log', "install_failed") =>
                (~dm_result' /\ LaunchAttempts(dm_log') = 0)
          /\ Has(dm_log', "already_running") =>
                (dm_result' /\ LaunchAttempts(dm_log') = 0 /\ procs # {})
          /\ (~Has(dm_log', "install_failed") /\ ~Has(dm_log', "already_running")) =>
                /\ LaunchAttempts(dm_log') = 1
                /\ Has(dm_log', "launch_failed") => ~dm_result'
                /\ Has(dm_log', "launch") =>
                      /\ At("start", "settle")
                      /\ dm_result' = IF Top.flag THEN procs # {}
                                      ELSE Top.child \in procs
      ]_vars

\* C14 witness: start_spotifyd, called with a daemon running and the binary
\* missing, has returned failure because the installation failed; the
\* daemon still runs.
C14_Witness ==
    /\ At("start", "done")
    /\ Has(dm_log, "called_running")
    /\ Has(dm_log, "install_failed")
    /\ ~dm_result
    /\ procs # {}

\* C15 (as claimed): stop_spotifyd, having found a process and sent it
\* SIGTERM, re-checks after the grace period, sends SIGKILL only if a
\* daemon is still present, never before SIGTERM, and returns success.
C15_StopOrder ==
    [][ StopSpotifydGrace =>
          /\ dm_result'
          /\ dm_log'[1] = "term"
          /\ Len(dm_log') > 1 => procs # {}
      ]_vars

\* C16: stop_spotifyd called when no process matches returns success at
\* once, sends no signal and changes neither the process table nor the
\* binary; so does every further call in that state.
C16_StopIdempotent ==
    [][ (StopSpotifydBegin /\ procs = {}) =>
          /\ dm_result'
          /\ dm_stack'[1].pc = "done"
          /\ dm_log' = <<>>
          /\ dm_pid' = NoPid
          /\ UNCHANGED <<binary, procs, daemon_running>>
      ]_vars

\* C16 witness: a second call of stop_spotifyd has returned success with no
\* process present and no signal sent.
C16_Witness ==
    /\ At("stop", "done")
    /\ dm_calls >= 2
    /\ procs = {}
    /\ dm_result
    /\ dm_log = <<>>

\* C17: install_spotifyd(force_reinstall=False) with the binary installed
\* and executable returns success at once: no HTTP request, the file at
\* spotifyd_path untouched.
C17_InstallNoop ==
    [][ (InstallSpotifyd(FALSE) /\ IsInstalled) =>
          /\ dm_result'
          /\ dm_stack'[1].pc = "done"
          /\ dm_log' = <<>>
          /\ binary' = binary
      ]_vars

\* C17 witness: the unforced install has returned success with the binary
\* installed and nothing done.
C17_Witness ==
    /\ At("install", "done")
    /\ ~Top.flag
    /\ IsInstalled
    /\ dm_result
    /\ dm_log = <<>>

\* the step of ensure_spotifyd_ready an event belongs to
EnsureStep(e) ==
    IF e \in {"get_release", "download", "install_ok", "install_failed"} THEN 1
    ELSE IF e \in {"config_ok", "config_failed"} THEN 2
    ELSE 3

\* C18: ensure_spotifyd_ready does install, config write, start in this
\* order; it returns failure exactly when the install step or the start
\* step failed; after a failed config write the start step is still
\* reached (the daemon found running, or start_spotifyd called).
C18_EnsureOrder ==
    At("ensure", "done") =>
        /\ \A i, j \in 1..Len(dm_log) :
              i < j => EnsureStep(dm_log[i]) <= EnsureStep(dm_log[j])
        /\ dm_result <=>
              ~(Has(dm_log, "install_failed") \/ Has(dm_log, "start_failed"))
        /\ Has(dm_log, "config_failed") =>
              dm_log[Len(dm_log)] \in {"already_running", "start_ok", "start_failed"}

\* C18 witness: the config write failed, the daemon was launched all the
\* same, and ensure_spotifyd_ready has returned success.
C18_Witness ==
    /\ At("ensure", "done")
    /\ Has(dm_log, "config_failed")
    /\ Has(dm_log, "launch")
    /\ dm_result

\* C19: install_spotifyd returns failure when no release asset matches (or
\* the release metadata cannot be fetched), when the download fails and
\* when the archive has no member ending in the binary's name, and the
\* file at spotifyd_path is then the one that was there at the call.
C19_InstallFailure ==
    [][ /\ \A outcome \in {"error", "no_asset"} :
            InstallMeta(outcome) => (~dm_result' /\ binary' = Top.saved)
        /\ \A outcome \in {"error", "no_member"} :
            InstallDownload(outcome) => (~dm_result' /\ binary' = Top.saved)
      ]_vars

\* C19 witness: a forced reinstall has failed after its download, and the
\* binary installed before is still in place.
C19_Witness ==
    /\ At("install", "done")
    /\ Top.flag
    /\ Has(dm_log, "download")
    /\ ~dm_result
    /\ Top.saved = "installed"
    /\ binary = "installed"

\* the processes that matched at the outermost call and run when it
\* returns (those another actor started since are not among them)
OldProcsLeft == dm_stack'[1].old \cap procs'

\* C28 (as claimed): when stop_spotifyd returns success, no process that
\* matches the scan is running, but for those that another actor started
\* during the call; also when several processes matched at the call.
C28_StoppedMeansNone ==
    [][ (ReturnStep("stop") /\ dm_result') => OldProcsLeft = {} ]_vars

\* C29 (as claimed): restart_spotifyd returns success only if the daemon
\* processes running at the call are gone, so that the process start found
\* running was launched after the stop: never on the strength of an old
\* process still running.
C29_RestartIsFresh ==
    [][ (ReturnStep("restart") /\ dm_result') => OldProcsLeft = {} ]_vars

=============================================================================
